---- MODULE Spec2Model ----
(***************************************************************************)
(* Model of swiss_register_remote_data_version_react_single_file.jsx:      *)
(* the tokenizer / inverted index / conjunctive query engine (buildIndex,  *)
(* queryIndex) and the App component that loads the data set once, keeps   *)
(* it in `raw` and derives `index` and `results` through useMemo.          *)
(*                                                                         *)
(* Strings are sequences of characters (one-character TLA+ strings).       *)
(* A JS Set is its insertion-ordered sequence of distinct members, a JS    *)
(* Map a function from its keys.  Records are identified by their 1-based  *)
(* position in the collection (JS position p-1): queryIndex returns the    *)
(* objects rows[i], and every object of a collection is a distinct object. *)
(***************************************************************************)
EXTENDS Integers, Sequences, FiniteSets, TLC

\* ------------------------------------------------------------------ bounds
MaxRows == 2         \* longest enumerated data set
MaxQueryLen == 3     \* longest text typed into the search box
MaxCapQueryLen == 3  \* the same, in the runs on the large data sets
BigExtra == 1        \* by how many rows the large data sets exceed the cap

\* ------------------------------------------------------- program constants
CAP == 1000          \* .slice(0, 1000)

\* ------------------------------------------------------------- characters
\* "U+0130" is LATIN CAPITAL LETTER I WITH DOT ABOVE; String.toLowerCase maps
\* it to "i" followed by U+0307 COMBINING DOT ABOVE, a mark (\p{Mn}), which
\* is neither \p{L} nor \p{N}.
LowerLetters == {"a", "b", "c", "i", "m", "n", "o", "p", "y"}
UpperLetters == {"B", "C", "U+0130"}
Digits == {"0", "1", "2", "3", "4", "5", "6", "7", "8", "9"}
Alnum == LowerLetters \cup UpperLetters \cup Digits       \* [\p{L}\p{N}]
Whitespace == {" "}                                       \* \s
Punct == {"-", "U+0307"}
Chars == Alnum \cup Whitespace \cup Punct
NonAlnum == Chars \ Alnum                                 \* [^\p{L}\p{N}]

\* JS values that are not strings
Undefined == <<"<undefined>">>
Null == <<"<null>">>

Nullish(v) == v \in {Undefined, Null}

\* a ?? b
Coalesce(a, b) == IF Nullish(a) THEN b ELSE a

\* obj[k] for an object modelled as a function on its own property names
Get(obj, k) == IF k \in DOMAIN obj THEN obj[k] ELSE Undefined

\* String.prototype.toLowerCase, one character
LowerChar(c) ==
    CASE c = "B" -> <<"b">>
      [] c = "C" -> <<"c">>
      [] c = "U+0130" -> <<"i", "U+0307">>
      [] OTHER -> <<c>>

RECURSIVE toLowerCase(_)
toLowerCase(s) ==
    IF s = <<>> THEN <<>> ELSE LowerChar(Head(s)) \o toLowerCase(Tail(s))

\* String.prototype.split(re) for a regular expression re = [sep]+ :
\* the segments between the maximal runs of separator characters, the empty
\* leading and trailing segments included.
RECURSIVE SplitFrom(_, _, _, _, _)
SplitFrom(s, k, sep, cur, out) ==
    IF k > Len(s) THEN Append(out, cur)
    ELSE IF s[k] \in sep
         THEN IF k > 1 /\ s[k - 1] \in sep
              THEN SplitFrom(s, k + 1, sep, cur, out)
              ELSE SplitFrom(s, k + 1, sep, <<>>, Append(out, cur))
         ELSE SplitFrom(s, k + 1, sep, Append(cur, s[k]), out)

split(s, sep) == SplitFrom(s, 1, sep, <<>>, <<>>)

\* .filter(Boolean) on an array of strings: drops the empty strings
FilterBoolean(segs) == LET Boolean(x) == x # <<>> IN SelectSeq(segs, Boolean)

\* String.prototype.trim
RECURSIVE TrimStart(_)
TrimStart(s) ==
    IF s # <<>> /\ Head(s) \in Whitespace THEN TrimStart(Tail(s)) ELSE s

RECURSIVE TrimEnd(_)
TrimEnd(s) ==
    IF s # <<>> /\ s[Len(s)] \in Whitespace
    THEN TrimEnd(SubSeq(s, 1, Len(s) - 1)) ELSE s

trim(s) == TrimEnd(TrimStart(s))

\* ------------------------------------------------------------ JS Set / Map
\* A Set object: `order` is the insertion order its iterator ([...set])
\* follows, `has` the membership its has() answers.
NewSet == [order |-> <<>>, has |-> {}]

SetHas(set, x) == x \in set.has

SetAdd(set, x) ==
    IF SetHas(set, x) THEN set
    ELSE [order |-> Append(set.order, x), has |-> set.has \cup {x}]

SetSize(set) == Len(set.order)

Members(s) == {s[k] : k \in 1..Len(s)}

\* new Set(iterable) for an iterable that yields no value twice (a Set, or
\* a filtered spread of one)
SetFrom(s) == [order |-> s, has |-> Members(s)]

EmptyMap == [k \in {} |-> NewSet]

\* ------------------------------------------------------------- buildIndex
\* variant: the address is indexed as well
fieldsWithAddress == <<"name", "city", "type", "address">>

fields == <<"name", "city", "type">>

\* v.split(/[^\p{L}\p{N}]+/u).filter(Boolean), line 66
Tokens(v) == FilterBoolean(split(v, NonAlnum))

\* the tokens of one field of a row: lines 65-66 (a field holds a string,
\* null or nothing here, so toString() gives the string itself)
FieldTokens(row, f) == Tokens(toLowerCase(Coalesce(Get(row, f), <<>>)))

\* idx.get(tok).add(i)
PostingAdd(idx, tok, i) == [idx EXCEPT ![tok] = SetAdd(@, i)]

\* lines 67-68, for the tokens toks[k..] of one field of row i
RECURSIVE AddTokens(_, _, _, _)
AddTokens(idx, toks, k, i) ==
    IF k > Len(toks) THEN idx
    ELSE IF toks[k] \in DOMAIN idx
         THEN AddTokens(PostingAdd(idx, toks[k], i), toks, k + 1, i)
         ELSE AddTokens(PostingAdd(idx @@ (toks[k] :> NewSet), toks[k], i),
                        toks, k + 1, i)

\* fields.forEach, for fields[f..] of row i
RECURSIVE AddFields(_, _, _, _)
AddFields(idx, row, f, i) ==
    IF f > Len(fields) THEN idx
    ELSE AddFields(AddTokens(idx, FieldTokens(row, fields[f]), 1, i),
                   row, f + 1, i)

\* rows.forEach((row, i) => ...), for the rows at positions lo..hi: the rows
\* are visited in ascending position and each visit continues from the index
\* the visits before it left.  The range is halved, and the index left by
\* the first half is evaluated before the second half is entered, so that
\* the evaluation depth stays logarithmic in the number of rows.
RECURSIVE AddRows(_, _, _, _)
AddRows(idx, rows, lo, hi) ==
    IF lo > hi THEN idx
    ELSE IF lo = hi THEN AddFields(idx, rows[lo], 1, lo)
    ELSE LET mid == (lo + hi) \div 2
             left == AddRows(idx, rows, lo, mid)
         IN  IF DOMAIN left = DOMAIN left THEN AddRows(left, rows, mid + 1, hi) ELSE left

buildIndex(rows) == AddRows(EmptyMap, rows, 1, Len(rows))

\* ------------------------------------------------------------- queryIndex
\* variant: the filter keeps every member
IntersectKeepsAll(current, set) == SetFrom(current.order)

\* new Set([...current].filter((x) => set.has(x)))
Intersect(current, set) ==
    LET keep(x) == SetHas(set, x) IN SetFrom(SelectSeq(current.order, keep))

\* variant: the whole match list
sliceNoCap(s, n) == s

\* [...current].slice(0, n)
slice(s, n) == SubSeq(s, 1, IF Len(s) < n THEN Len(s) ELSE n)

AllPositions(rows) == [k \in 1..Len(rows) |-> k]

\* variant: a token that is no key of the index is skipped
RECURSIVE ResolveSkipsAbsent(_, _, _, _)
ResolveSkipsAbsent(toks, k, idx, current) ==
    IF k > Len(toks) THEN [ret |-> FALSE, current |-> current]
    ELSE IF toks[k] \notin DOMAIN idx
         THEN ResolveSkipsAbsent(toks, k + 1, idx, current)
    ELSE LET cur == IF SetSize(current) > 0
                    THEN Intersect(current, idx[toks[k]])
                    ELSE SetFrom(idx[toks[k]].order)
         IN  IF SetSize(cur) = 0 THEN [ret |-> TRUE, current |-> NewSet]
             ELSE ResolveSkipsAbsent(toks, k + 1, idx, cur)

\* the for loop of lines 80-85 from token toks[k] on; before the first
\* token current is null (NewSet stands for it: a non-null current is never
\* empty when the next token is read).  ret is TRUE when the loop returned [].
RECURSIVE Resolve(_, _, _, _)
Resolve(toks, k, idx, current) ==
    IF k > Len(toks) THEN [ret |-> FALSE, current |-> current]
    ELSE IF toks[k] \notin DOMAIN idx THEN [ret |-> TRUE, current |-> NewSet]
    ELSE LET cur == IF SetSize(current) > 0
                    THEN Intersect(current, idx[toks[k]])
                    ELSE SetFrom(idx[toks[k]].order)
         IN  IF SetSize(cur) = 0 THEN [ret |-> TRUE, current |-> NewSet]
             ELSE Resolve(toks, k + 1, idx, cur)

\* the positions of the records queryIndex returns, in the order returned
queryIndex(query, rows, idx) ==
    LET q == toLowerCase(trim(query))
    IN  IF q = <<>> THEN AllPositions(rows)
        ELSE LET r == Resolve(split(q, Whitespace), 1, idx, NewSet)
             IN  IF r.ret THEN <<>> ELSE slice(r.current.order, CAP)

\* variant: current aliases the first posting set and is narrowed in place
queryIndexInPlace(query, rows, idx) ==
    LET toks == split(toLowerCase(trim(query)), Whitespace)
    IN  IF Len(toks) >= 2 /\ toks[1] \in DOMAIN idx /\ toks[2] \in DOMAIN idx
        THEN [rows |-> rows,
              idx |-> [idx EXCEPT ![toks[1]] = Intersect(@, idx[toks[2]])]]
        ELSE [rows |-> rows, idx |-> idx]

\* the arguments as a call of queryIndex leaves them: idx.get, set.has,
\* the spreads and the Set copies only read; no statement of lines 75-87
\* writes to idx, to a posting set or to rows
queryIndexLeaves(query, rows, idx) == [rows |-> rows, idx |-> idx]

\* -------------------------------------------------------- data acquisition
\* Number.prototype.toString / template interpolation of a number
DigitOf(n) == <<"0", "1", "2", "3", "4", "5", "6", "7", "8", "9">>[n + 1]

RECURSIVE ToDigits(_)
ToDigits(n) ==
    IF n < 10 THEN <<DigitOf(n)>>
    ELSE Append(ToDigits(n \div 10), DigitOf(n % 10))

DATA_URL == "https://raw.githubusercontent.com/johna-wq/test00001/refs/heads/main/companies_full.jsonl"

\* A message text is kept whole, as a sequence of its pieces.
\* fetchTextMaybeGzip: the Error thrown for a response that is not ok
StatusError(status) ==
    [message |-> <<"Failed to fetch ", DATA_URL, ": ">> \o ToDigits(status),
     str |-> <<"Error: Failed to fetch ", DATA_URL, ": ">> \o ToDigits(status)]

\* loadCompaniesFromURL with jsonl = false: the value JSON.parse gives, or for
\* a text that is not JSON one { id: i+1, name } per non-empty line
Parse(body) ==
    IF body.json THEN [isArray |-> body.isArray, items |-> body.items]
    ELSE LET lines == FilterBoolean(body.lines)
         IN  [isArray |-> TRUE,
              items |-> [k \in 1..Len(lines) |->
                            [id |-> ToDigits(k), name |-> lines[k]]]]

\* the object literal of lines 127-134 for the element d at position p
\* (JS index p - 1): the spread ...d comes last and overrides the defaults
NormalizeOne(d, p) ==
    d @@ [id |-> Coalesce(Get(d, "id"), ToDigits(p)),
          name |-> Coalesce(Get(d, "name"),
                   Coalesce(Get(d, "companyName"),
                   Coalesce(Get(d, "title"),
                            <<"C", "o", "m", "p", "a", "n", "y", " ">>
                                \o ToDigits(p)))),
          city |-> Coalesce(Get(d, "city"),
                   Coalesce(Get(d, "location"),
                   Coalesce(Get(d, "town"), <<>>))),
          type |-> Coalesce(Get(d, "type"),
                   Coalesce(Get(d, "category"),
                   Coalesce(Get(d, "industry"), <<>>))),
          address |-> Coalesce(Get(d, "address"),
                      Coalesce(Get(d, "addr"), <<>>))]

\* a null among the elements of the parsed array (an object is a function on
\* its property names, so null is given a shape of its own)
NullElement == [null |-> TRUE]

\* data.map(...) of line 127: throws a TypeError when data has no map method
\* or when an element is null (d.id of null)
NormalizeThrows(data) ==
    \/ ~data.isArray
    \/ \E k \in 1..Len(data.items) : data.items[k] = NullElement

NormalizeError(data) ==
    IF ~data.isArray
    THEN [message |-> <<"data.map is not a function">>,
          str |-> <<"TypeError: data.map is not a function">>]
    ELSE [message |-> <<"Cannot read properties of null (reading 'id')">>,
          str |-> <<"TypeError: Cannot read properties of null (reading 'id')">>]

Normalize(data) ==
    [k \in 1..Len(data.items) |-> NormalizeOne(data.items[k], k)]

\* variant: e.message alone
ErrorValueNoFallback(e) == e.message

\* e?.message ?? String(e)
ErrorValue(e) == Coalesce(e.message, e.str)

\* ---------------------------------------------------------------- the App
VARIABLES
    remote,     \* what the request for DATA_URL will produce
    keyboard,   \* the characters the user types
    maxLen,     \* the longest text the user types
    pc,         \* the load effect: "mount", "inflight" or "done"
    alive,      \* the effect's flag, FALSE once its cleanup has run
    raw,        \* useState: the record collection
    rawId,      \* the identity of the array in raw (a new one per setRaw)
    query,      \* useState: the text of the search box
    loading,    \* useState
    error,      \* useState: Null or the message
    index,      \* useMemo(buildIndex(raw), [raw])
    indexDep,   \* the raw identity that memo was computed for
    results,    \* useMemo(queryIndex(query, raw, index), [query, raw, index])
    call,       \* the arguments of the latest queryIndex call, as passed
    builds,     \* the number of buildIndex calls so far
    late        \* the state setters called after the cleanup

vars == <<remote, keyboard, maxLen, pc, alive, raw, rawId, query, loading,
          error, index, indexDep, results, call, builds, late>>

\* const index = useMemo(() => buildIndex(raw), [raw]): recomputed when the
\* array in raw is not the one the memo was computed for
\* variant: useMemo(..., []), the index of the first render is kept
IndexNeverStale(dep, id) == FALSE

IndexStale(dep, id) == dep # id

\* One render with the state (r, rid, q), lines 147-149; qChanged tells
\* whether q differs from the query of the previous render.  results is
\* recomputed when one of query, raw, index is not the one of the previous
\* render.
Render(r, rid, q, qChanged) ==
    LET rebuilt == IndexStale(indexDep, rid)
        ix == IF rebuilt THEN buildIndex(r) ELSE index
        left == queryIndexLeaves(q, r, ix)
    IN  /\ indexDep' = IF rebuilt THEN rid ELSE indexDep
        /\ builds' = IF rebuilt THEN builds + 1 ELSE builds
        /\ IF rebuilt \/ qChanged \/ rid # rawId
           THEN /\ results' = queryIndex(q, r, ix)
                /\ call' = [query |-> q, rows |-> r, idx |-> ix]
                /\ index' = left.idx
                /\ raw' = left.rows
           ELSE /\ results' = results
                /\ call' = call
                /\ index' = ix
                /\ raw' = r
        /\ rawId' = rid
        /\ query' = q

\* the effect of lines 119-145 starts: alive = true, setLoading(true), and
\* the request is sent
Effect ==
    /\ pc = "mount"
    /\ pc' = "inflight"
    /\ alive' = TRUE
    /\ loading' = TRUE
    /\ Render(raw, rawId, query, FALSE)
    /\ UNCHANGED <<remote, keyboard, maxLen, error, late>>

\* return () => { alive = false; }
Cleanup ==
    /\ pc # "mount"
    /\ alive
    /\ alive' = FALSE
    /\ UNCHANGED <<remote, keyboard, maxLen, pc, raw, rawId, query, loading,
                   error, index, indexDep, results, call, builds, late>>

\* onChange={(e) => setQuery(e.target.value)} after one edit of the text:
\* a character typed at its end, or its last character deleted
Edits(text) ==
    {Append(text, c) : c \in (IF Len(text) < maxLen THEN keyboard ELSE {})}
        \cup (IF text = <<>> THEN {} ELSE {SubSeq(text, 1, Len(text) - 1)})

onChange ==
    /\ pc # "mount"
    /\ alive
    /\ \E v \in Edits(query) : Render(raw, rawId, v, TRUE)
    /\ UNCHANGED <<remote, keyboard, maxLen, pc, alive, loading, error, late>>

\* the setters a completion calls once alive is false
Late(setters) == IF alive THEN late ELSE late \cup setters

\* the await of line 124 throws (fetch or text() rejects, or the status is
\* not ok): catch -> setError, finally -> setLoading(false) only if alive
FetchFail ==
    /\ pc = "inflight"
    /\ remote.kind \in {"reject", "status"}
    /\ pc' = "done"
    /\ LET e == IF remote.kind = "status" THEN StatusError(remote.status)
                ELSE remote.e
       IN  error' = ErrorValue(e)
    /\ loading' = IF alive THEN FALSE ELSE loading
    /\ late' = Late({"setError"})
    /\ Render(raw, rawId, query, FALSE)
    /\ UNCHANGED <<remote, keyboard, maxLen, alive>>

\* the data arrives after the cleanup: if (!alive) return; the finally block
\* then skips setLoading
LoadAbandoned ==
    /\ pc = "inflight"
    /\ remote.kind = "ok"
    /\ ~alive
    /\ pc' = "done"
    /\ UNCHANGED <<remote, keyboard, maxLen, alive, raw, rawId, query,
                   loading, error, index, indexDep, results, call, builds,
                   late>>

\* the data arrives and data.map throws: catch -> setError, finally ->
\* setLoading(false)
NormalizeFail ==
    /\ pc = "inflight"
    /\ remote.kind = "ok"
    /\ alive
    /\ NormalizeThrows(Parse(remote.body))
    /\ pc' = "done"
    /\ error' = ErrorValue(NormalizeError(Parse(remote.body)))
    /\ loading' = FALSE
    /\ Render(raw, rawId, query, FALSE)
    /\ UNCHANGED <<remote, keyboard, maxLen, alive, late>>

\* the data arrives and is normalized: setRaw(norm), setError(null),
\* finally -> setLoading(false)
LoadSuccess ==
    /\ pc = "inflight"
    /\ remote.kind = "ok"
    /\ alive
    /\ ~NormalizeThrows(Parse(remote.body))
    /\ pc' = "done"
    /\ error' = Null
    /\ loading' = FALSE
    /\ Render(Normalize(Parse(remote.body)), rawId + 1, query, FALSE)
    /\ UNCHANGED <<remote, keyboard, maxLen, alive, late>>

Next ==
    \/ Effect
    \/ Cleanup
    \/ onChange
    \/ FetchFail
    \/ LoadAbandoned
    \/ NormalizeFail
    \/ LoadSuccess

\* ------------------------------------------------------------- the inputs
Keys == {"a", "B", " ", "-"}
CapKeys == {"a", "b", " "}

\* the JSON objects of the enumerated data sets
Objects ==
    { [name |-> <<"B", "-", "a">>, address |-> <<"c">>, type |-> Null],
      [town |-> <<"a">>, type |-> <<"U+0130">>] }

Elements == Objects \cup {NullElement}

Arrays == UNION {[1..n -> Elements] : n \in 0..MaxRows}

Rejections ==
    { [message |-> <<"Failed to fetch">>, str |-> <<"TypeError: Failed to fetch">>],
      [message |-> Undefined, str |-> <<"timeout">>] }

Responses ==
    {[kind |-> "reject", e |-> x] : x \in Rejections}
        \cup {[kind |-> "status", status |-> 404]}
        \cup {[kind |-> "ok", body |-> [json |-> TRUE, isArray |-> FALSE, items |-> <<>>]]}
        \cup {[kind |-> "ok", body |-> [json |-> FALSE,
                                        lines |-> <<<<"a">>, <<>>, <<"B", " ", "a">>>>]]}
        \cup {[kind |-> "ok", body |-> [json |-> TRUE, isArray |-> TRUE, items |-> x]] :
                x \in Arrays}

\* a large data set: n rows named "a", all but the first in the city "b"
BigArray(n) ==
    [k \in 1..n |-> IF k > 1 THEN [name |-> <<"a">>, city |-> <<"b">>]
                    ELSE [name |-> <<"a">>]]

BigResponses ==
    {[kind |-> "reject", e |-> x] : x \in Rejections}
        \cup {[kind |-> "status", status |-> 404]}
        \cup {[kind |-> "ok", body |-> [json |-> TRUE, isArray |-> TRUE,
                                        items |-> <<NullElement>>]]}
        \cup {[kind |-> "ok", body |-> [json |-> TRUE, isArray |-> TRUE,
                                        items |-> BigArray(CAP + BigExtra)]]}

\* the component after its first render
Mounted ==
    /\ pc = "mount"
    /\ alive = TRUE
    /\ raw = <<>>
    /\ rawId = 0
    /\ query = <<>>
    /\ loading = TRUE
    /\ error = Null
    /\ index = buildIndex(<<>>)
    /\ indexDep = 0
    /\ results = queryIndex(<<>>, <<>>, buildIndex(<<>>))
    /\ call = [query |-> <<>>, rows |-> <<>>, idx |-> buildIndex(<<>>)]
    /\ builds = 1
    /\ late = {}

Init ==
    /\ remote \in Responses
    /\ keyboard = Keys
    /\ maxLen = MaxQueryLen
    /\ Mounted

InitCap ==
    /\ remote \in BigResponses
    /\ keyboard = CapKeys
    /\ maxLen = MaxCapQueryLen
    /\ Mounted

Spec == Init /\ [][Next]_vars

SpecCap == InitCap /\ [][Next]_vars

\* ------------------------------------------------------------- properties
Min(a, b) == IF a < b THEN a ELSE b

\* the maximal runs of alphanumeric characters of a string
Runs(v) ==
    {SubSeq(v, i, j) : <<i, j>> \in
        {p \in (1..Len(v)) \X (1..Len(v)) :
            /\ p[1] <= p[2]
            /\ \A k \in p[1]..p[2] : v[k] \in Alnum
            /\ p[1] = 1 \/ v[p[1] - 1] \notin Alnum
            /\ p[2] = Len(v) \/ v[p[2] + 1] \notin Alnum}}

\* the string value of a field, a missing or null field being ""
StringValue(row, f) ==
    IF f \in DOMAIN row /\ row[f] # Null /\ row[f] # Undefined THEN row[f]
    ELSE <<>>

IndexedFields == {"name", "city", "type"}

OccursIn(t, row) ==
    \E f \in IndexedFields : t \in Runs(toLowerCase(StringValue(row, f)))

AllRuns(rows) ==
    UNION {Runs(toLowerCase(StringValue(rows[i], f))) :
             i \in 1..Len(rows), f \in IndexedFields \cup {"address"}}

\* C1: in buildIndex(rows), position i is in the posting set of token t
\* exactly when t is a maximal alphanumeric run of the lower-cased value of
\* the name, city or type field of rows[i]; a token of another field alone
\* puts i nowhere, and no key has an empty posting set.
C1_IndexIffTokenOccurs ==
    LET ix == buildIndex(raw)
    IN  /\ \A t \in DOMAIN ix : SetSize(ix[t]) > 0 /\ ix[t].has # {}
        /\ \A i \in 1..Len(raw) : \A t \in DOMAIN ix \cup AllRuns(raw) :
              (t \in DOMAIN ix /\ SetHas(ix[t], i)) <=> OccursIn(t, raw[i])

\* a record whose address holds a token that none of its indexed fields
\* holds has been indexed
C1_Witness ==
    \E i \in 1..Len(raw) :
        /\ <<"c">> \in Runs(toLowerCase(StringValue(raw[i], "address")))
        /\ <<"c">> \notin DOMAIN index
        /\ <<"b">> \in DOMAIN index /\ SetHas(index[<<"b">>], i)

\* what resolving a token sequence gives: all records for no token, else the
\* capped conjunction
ResolveTokens(toks, rows, idx) ==
    IF toks = <<>> THEN AllPositions(rows)
    ELSE LET r == Resolve(toks, 1, idx, NewSet)
         IN  IF r.ret THEN <<>> ELSE slice(r.current.order, CAP)

\* C2: queryIndex(q, rows, idx) is the result of resolving the tokens that
\* the build-time rule (lower-case, split on runs of non-alphanumeric
\* characters, drop empty segments) gives for q.
C2_QueryUsesBuildTokenizer ==
    results = ResolveTokens(Tokens(toLowerCase(call.query)), call.rows, call.idx)

\* C3: a query that normalizes to zero tokens (empty, blank or punctuation
\* only) returns all records in collection order, uncapped.
C3_NoTokenReturnsAll ==
    Tokens(toLowerCase(call.query)) = <<>> => results = AllPositions(call.rows)

\* the tokens of the latest query as queryIndex splits them
CallText == toLowerCase(trim(call.query))
CallTokens == split(CallText, Whitespace)

\* the positions that are in the posting set of every token of the query
MatchSet(toks, rows, idx) ==
    {i \in 1..Len(rows) :
        \A k \in 1..Len(toks) :
            toks[k] \in DOMAIN idx /\ SetHas(idx[toks[k]], i)}

\* C4: for a non-empty query the result is the first min(1000, |M|)
\* positions of the match set M in strictly ascending order: at most 1000
\* entries, none outside M, none twice, and a position of M is left out only
\* if at least 1000 smaller positions of M precede it.
C4_FirstThousandAscending ==
    LET M == MatchSet(CallTokens, call.rows, call.idx)
        R == Members(results)
    IN  CallText # <<>> =>
            /\ Len(results) = Min(CAP, Cardinality(M))
            /\ \A k \in 1..(Len(results) - 1) : results[k] < results[k + 1]
            /\ R \subseteq M
            /\ \A i \in M \ R : Cardinality({j \in M : j < i}) >= CAP

\* a query with more than 1000 matches has been answered
C4_Witness ==
    /\ CallText # <<>>
    /\ Cardinality(MatchSet(CallTokens, call.rows, call.idx)) > CAP
    /\ Len(results) = CAP

\* the query is t1 + " " + t2 for two tokens t1, t2
TwoTokenQuery ==
    /\ Len(CallTokens) = 2
    /\ call.query = CallTokens[1] \o <<" ">> \o CallTokens[2]
    /\ \A k \in 1..2 : \A c \in 1..Len(CallTokens[k]) :
          CallTokens[k][c] \in LowerLetters \cup Digits

\* C5 as stated: every record returned for t1 + " " + t2 is also returned
\* for t1 alone and for t2 alone, the cap applied to all three queries.
C5_SubsetOfCappedSingles ==
    TwoTokenQuery =>
        \A k \in 1..2 :
            Members(results) \subseteq
                Members(queryIndex(CallTokens[k], call.rows, call.idx))

\* C5 amended: every record returned for t1 + " " + t2 is in the posting sets
\* of t1 and of t2, and is returned for t1 alone (t2 alone) whenever that
\* token matches at most 1000 records.
C5_SubsetOfPostings ==
    TwoTokenQuery =>
        \A k \in 1..2 :
            \/ results = <<>>
            \/ /\ CallTokens[k] \in DOMAIN call.idx
               /\ Members(results) \subseteq call.idx[CallTokens[k]].has
               /\ SetSize(call.idx[CallTokens[k]]) <= CAP =>
                     Members(results) \subseteq
                         Members(queryIndex(CallTokens[k], call.rows, call.idx))

\* a two-token query has returned a record, one token matching more than 1000
C5_Witness ==
    /\ TwoTokenQuery
    /\ results # <<>>
    /\ CallTokens[1] # CallTokens[2]
    /\ \E k \in 1..2 : SetSize(call.idx[CallTokens[k]]) > CAP

LoadFails ==
    /\ pc = "inflight"
    /\ pc' = "done"
    /\ \/ remote.kind \in {"reject", "status"}
       \/ remote.kind = "ok" /\ alive /\ NormalizeThrows(Parse(remote.body))

\* C7: a load that fails triggers no build and leaves the record collection
\* and the index as they were, and hands a non-null error to setError.
C7_FailedLoadKeepsIndex ==
    [][LoadFails =>
        /\ raw' = raw /\ rawId' = rawId
        /\ index' = index /\ indexDep' = indexDep
        /\ builds' = builds
        /\ ~Nullish(error')]_vars

\* a load has failed after a query was typed
C7_Witness ==
    /\ pc = "done"
    /\ ~Nullish(error)
    /\ query # <<>>
    /\ raw = <<>> /\ builds = 1

\* C8: the index passed to queryIndex is buildIndex of the record collection
\* passed in the same call, and they are the current ones.
C8_QueryAgainstOwnIndex ==
    /\ call.idx = buildIndex(call.rows)
    /\ call.rows = raw
    /\ call.query = query

\* a query has been resolved against the index of the loaded collection
C8_Witness ==
    /\ builds = 2
    /\ call.rows # <<>>
    /\ call.query # <<>>
    /\ results # <<>>

C10_NoSetterAfterCleanup == late = {}

====
